---- MODULE Spec2Model ----
(***************************************************************************)
(* A model of the widget toolkit of src/main.py (a Tkinter-like library    *)
(* on top of Brython's browser module): the Notebook tab state machine and *)
(* the Toplevel drag state machine, with the part of the document they act *)
(* on (buttons, panels, the listeners bound on document body); the         *)
(* reactive variables and the adapters bound to them; the entries of a     *)
(* Menu; and Widget.pack / add_widget on the document tree.                *)
(***************************************************************************)
EXTENDS Integers, Sequences, FiniteSets, TLC

VARIABLES
    menu,           \* Notebook.menu children: the tab buttons, in attach order
    panels,         \* Notebook.element children after the menu: the tab panels
    tabs,           \* Notebook.tabs: tab_id -> [button, panel] (indices into menu, panels)
    selected_tab,   \* Notebook.selected_tab
    raised,         \* the exception the last call let escape to its caller
    in_document,    \* per Toplevel: element is attached to document.body
    is_dragging,    \* per Toplevel: self.is_dragging
    offset_x,       \* per Toplevel: self.offset_x
    offset_y,       \* per Toplevel: self.offset_y
    style_left,     \* per Toplevel: element.style.left, <<number, unit>>
    style_top,      \* per Toplevel: element.style.top, <<number, unit>>
    classList,      \* per Toplevel: element.classList
    body_listeners, \* listeners bound on document body, in bind order
    var_kind,       \* the shared variable: its class (StringVar, IntVar, BooleanVar)
    var_value,      \* the shared variable: self._value
    adapters,       \* the adapters bound to the shared variable, in construction order
    last_event,     \* what the handlers of the last input event did
    menu_items,     \* Menu.element children: the entries, in attach order
    last_click,     \* what the last click on a menu entry's link did
    parent_of,      \* per child widget: self.parent, or NotBuilt
    dom,            \* per container node of the document: its children, in order
    registry        \* per container: self.widgets

nbvars == <<menu, panels, tabs, selected_tab>>
tlvars == <<in_document, is_dragging, offset_x, offset_y, style_left, style_top,
            classList, body_listeners>>
vrvars == <<var_kind, var_value, adapters, last_event>>
mnvars == <<menu_items, last_click>>
mtvars == <<parent_of, dom, registry>>
vars == <<menu, panels, tabs, selected_tab, raised, in_document, is_dragging,
          offset_x, offset_y, style_left, style_top, classList, body_listeners,
          var_kind, var_value, adapters, last_event, menu_items, last_click,
          parent_of, dom, registry>>

\* what the operations of each component leave alone
notNotebook == <<tlvars, vrvars, mnvars, mtvars>>
notToplevel == <<nbvars, vrvars, mnvars, mtvars>>
notVariable == <<nbvars, tlvars, mnvars, mtvars>>
notMenu == <<nbvars, tlvars, vrvars, mtvars>>
notMount == <<nbvars, tlvars, vrvars, mnvars>>

----------------------------------------------------------------------------
(* Bounds *)

MaxTabs == 3
MaxWindows == 2
\* presses that started a drag and have not been followed by a release yet
MaxPending == 2
\* adapters constructed on the shared variable
MaxWidgets == 2
\* entries added to the Menu
MaxEntries == 3
\* child widgets constructed, and add_widget calls per container
MaxChildren == 3
MaxRegistered == 1

----------------------------------------------------------------------------
(* Python values *)

\* Python's None; selected_tab is None or a non-empty identifier, and the
\* code tests it by truthiness, so the empty string stands for it
None == <<>>

NoError == "none"

\* str(b).lower() for a bool b
BoolStrLower(b) == IF b THEN "true" ELSE "false"

\* one character of str.lower(), on the alphabet of the titles used here
LowerChar(c) ==
    CASE c = "G" -> "g"
      [] c = "W" -> "w"
      [] c = "N" -> "n"
      [] OTHER -> c

\* one character of str.replace(' ', '-')
ReplaceSpace(c) == IF c = " " THEN "-" ELSE c

\* f"tab-{title.lower().replace(' ', '-')}"
TabId(title) ==
    <<"t", "a", "b", "-">> \o [i \in 1..Len(title) |-> ReplaceSpace(LowerChar(title[i]))]

Greetings == <<"G", "r", "e", "e", "t", "i", "n", "g", "s">>
Widgets == <<"W", "i", "d", "g", "e", "t", "s">>
NewWidgets == <<"N", "e", "w", " ", "W", "i", "d", "g", "e", "t", "s">>
widgets == <<"w", "i", "d", "g", "e", "t", "s">>

\* the titles add_tab is called with
Titles == {Greetings, Widgets, NewWidgets, widgets}

tab_greetings == <<"t", "a", "b", "-", "g", "r", "e", "e", "t", "i", "n", "g", "s">>
tab_widgets == <<"t", "a", "b", "-", "w", "i", "d", "g", "e", "t", "s">>
tab_missing == <<"t", "a", "b", "-", "x">>

\* the identifiers _select_tab is called with: those of the titles and one
\* that no title derives
SelectIds == {TabId(t) : t \in Titles} \cup {tab_missing}

----------------------------------------------------------------------------
(* Notebook *)

\* Notebook.__init__
NotebookInit ==
    /\ menu = <<>>
    /\ panels = <<>>
    /\ tabs = <<>>
    /\ selected_tab = None

\* dict item assignment d[k] = v
DictSet(d, k, v) == [x \in DOMAIN d \cup {k} |-> IF x = k THEN v ELSE d[x]]

\* add_tab that never marks the tab it adds as the selected one
add_tab_unselected(title) ==
    LET tab_id == TabId(title)
        is_first_tab == DOMAIN tabs = {}
        tab_button == [text |-> title, role |-> "tab", aria_controls |-> tab_id,
                       aria_selected |-> BoolStrLower(is_first_tab)]
        tab_panel == [id |-> tab_id, role |-> "tabpanel", hidden |-> ~is_first_tab]
    IN /\ menu' = Append(menu, tab_button)
       /\ panels' = Append(panels, tab_panel)
       /\ tabs' = DictSet(tabs, tab_id, [button |-> Len(menu) + 1, panel |-> Len(panels) + 1])
       /\ selected_tab' = selected_tab
       /\ raised' = NoError

\* add_tab that makes every tab it adds the selected one
add_tab_selecting(title) ==
    LET tab_id == TabId(title)
        is_first_tab == DOMAIN tabs = {}
        tab_button == [text |-> title, role |-> "tab", aria_controls |-> tab_id,
                       aria_selected |-> BoolStrLower(is_first_tab)]
        tab_panel == [id |-> tab_id, role |-> "tabpanel", hidden |-> ~is_first_tab]
    IN /\ menu' = Append(menu, tab_button)
       /\ panels' = Append(panels, tab_panel)
       /\ tabs' = DictSet(tabs, tab_id, [button |-> Len(menu) + 1, panel |-> Len(panels) + 1])
       /\ selected_tab' = tab_id
       /\ raised' = NoError

\* Notebook.add_tab
add_tab(title) ==
    LET tab_id == TabId(title)
        is_first_tab == DOMAIN tabs = {}
        tab_button == [text |-> title, role |-> "tab", aria_controls |-> tab_id,
                       aria_selected |-> BoolStrLower(is_first_tab)]
        tab_panel == [id |-> tab_id, role |-> "tabpanel", hidden |-> ~is_first_tab]
    IN /\ menu' = Append(menu, tab_button)
       /\ panels' = Append(panels, tab_panel)
       /\ tabs' = DictSet(tabs, tab_id, [button |-> Len(menu) + 1, panel |-> Len(panels) + 1])
       /\ selected_tab' = IF is_first_tab THEN tab_id ELSE selected_tab
       /\ raised' = NoError

\* lines 172-174 of _select_tab: the menu and the panels after the current
\* selection, if any, has been cleared
ClearedMenu ==
    IF selected_tab # None
    THEN [menu EXCEPT ![tabs[selected_tab].button].aria_selected = "false"]
    ELSE menu

ClearedPanels ==
    IF selected_tab # None
    THEN [panels EXCEPT ![tabs[selected_tab].panel].hidden = TRUE]
    ELSE panels

\* Notebook._select_tab; self.tabs[tab_id] raises KeyError for a missing key,
\* after lines 172-174 have run
select_tab(tab_id) ==
    IF tab_id \in DOMAIN tabs
    THEN /\ menu' = [ClearedMenu EXCEPT ![tabs[tab_id].button].aria_selected = "true"]
         /\ panels' = [ClearedPanels EXCEPT ![tabs[tab_id].panel].hidden = FALSE]
         /\ selected_tab' = tab_id
         /\ raised' = NoError
         /\ UNCHANGED tabs
    ELSE /\ menu' = ClearedMenu
         /\ panels' = ClearedPanels
         /\ raised' = "KeyError"
         /\ UNCHANGED <<tabs, selected_tab>>

\* the elements a click on the tab list can have as its target: the menu
\* itself (0) or one of its buttons (1..Len(menu))
ClickTargets == 0..Len(menu)

TargetTagName(target) == IF target = 0 THEN "MENU" ELSE "BUTTON"

\* _on_tab_click that resolves the tab from a position (the first button)
\* instead of from the button that was clicked
on_tab_click_first(target) ==
    IF TargetTagName(target) = "BUTTON"
    THEN select_tab(menu[1].aria_controls)
    ELSE /\ raised' = NoError
         /\ UNCHANGED nbvars

\* Notebook._on_tab_click
on_tab_click(target) ==
    IF TargetTagName(target) = "BUTTON"
    THEN select_tab(menu[target].aria_controls)
    ELSE /\ raised' = NoError
         /\ UNCHANGED nbvars

AddTab == \E title \in Titles :
    /\ Len(menu) < MaxTabs
    /\ add_tab(title)
    /\ UNCHANGED notNotebook

SelectTab == \E tab_id \in SelectIds :
    /\ select_tab(tab_id)
    /\ UNCHANGED notNotebook

TabClick == \E target \in ClickTargets :
    /\ on_tab_click(target)
    /\ UNCHANGED notNotebook

----------------------------------------------------------------------------
(* Toplevel *)

\* the default position of a new Toplevel: "top: 100px; left: 100px"
DefaultTop == 100
DefaultLeft == 100

\* "min-width: 250px" of a Toplevel
MinWidth == 250

\* height of the title bar, which the style sheet decides
TitleBarHeight == 30

\* the pointer positions (clientX, clientY) events are delivered with
Points == {<<110, 110>>, <<150, 160>>, <<120, 125>>}

\* the elements of a Toplevel's title bar a mousedown can have as its target
TitleBarTargets == {"title_bar", "title_bar_text", "title_bar_controls", "close_button"}

\* tagName of an element of a Toplevel; html.BUTTON for the close button,
\* html.DIV for the rest
TagName(target) == IF target = "close_button" THEN "BUTTON" ELSE "DIV"

\* f"{n}px"
Px(n) == <<n, "px">>

\* the Toplevel part of the state as one value, for the handlers to transform
TL == [in_document |-> in_document, is_dragging |-> is_dragging,
       offset_x |-> offset_x, offset_y |-> offset_y,
       style_left |-> style_left, style_top |-> style_top,
       classList |-> classList, body_listeners |-> body_listeners]

SetTL(s) ==
    /\ in_document' = s.in_document
    /\ is_dragging' = s.is_dragging
    /\ offset_x' = s.offset_x
    /\ offset_y' = s.offset_y
    /\ style_left' = s.style_left
    /\ style_top' = s.style_top
    /\ classList' = s.classList
    /\ body_listeners' = s.body_listeners

\* the windows constructed so far
Windows == DOMAIN is_dragging

\* element.offsetLeft / element.offsetTop of the absolutely positioned
\* window: the pixels of its style, 0 once it is out of the document
OffsetLeft(s, w) == IF s.in_document[w] THEN s.style_left[w][1] ELSE 0
OffsetTop(s, w) == IF s.in_document[w] THEN s.style_top[w][1] ELSE 0

\* a listener as the node keeps it: the event and the bound method
Listener(event, func, w) == [event |-> event, func |-> func, self |-> w]

Matches(l, event, func, w) == l.event = event /\ l.func = func /\ l.self = w

\* parent_body.bind(event, self.func): every bind registers one more listener
bind(listeners, event, func, w) == Append(listeners, Listener(event, func, w))

\* parent_body.unbind(event, self.func): removes the first listener bound
\* with an equal method
unbind(listeners, event, func, w) ==
    LET hits == {j \in 1..Len(listeners) : Matches(listeners[j], event, func, w)}
    IN IF hits = {} THEN listeners
       ELSE LET first == CHOOSE j \in hits : \A k \in hits : j <= k
            IN [j \in 1..(Len(listeners) - 1) |->
                   IF j < first THEN listeners[j] ELSE listeners[j + 1]]

\* Toplevel.__init__, lines 45-69
NewToplevelState(s) ==
    [s EXCEPT !.in_document = Append(@, TRUE),
              !.is_dragging = Append(@, FALSE),
              !.offset_x = Append(@, 0),
              !.offset_y = Append(@, 0),
              !.style_left = Append(@, Px(DefaultLeft)),
              !.style_top = Append(@, Px(DefaultTop)),
              !.classList = Append(@, {"window", "active"})]

\* start_drag without the test for the close button
start_drag_any_target(s, w, target, clientX, clientY) ==
    [s EXCEPT !.is_dragging[w] = TRUE,
              !.classList[w] = @ \cup {"dragging"},
              !.offset_x[w] = clientX - OffsetLeft(s, w),
              !.offset_y[w] = clientY - OffsetTop(s, w),
              !.body_listeners = bind(bind(@, "mousemove", "do_drag", w),
                                      "mouseup", "stop_drag", w)]

\* start_drag with the drag state kept once for all windows (class
\* attributes) instead of per instance
start_drag_shared(s, w, target, clientX, clientY) ==
    IF TagName(target) = "BUTTON" THEN s
    ELSE [s EXCEPT !.is_dragging = [v \in DOMAIN @ |-> TRUE],
                   !.classList[w] = @ \cup {"dragging"},
                   !.offset_x = [v \in DOMAIN @ |-> clientX - OffsetLeft(s, w)],
                   !.offset_y = [v \in DOMAIN @ |-> clientY - OffsetTop(s, w)],
                   !.body_listeners = bind(bind(@, "mousemove", "do_drag", w),
                                           "mouseup", "stop_drag", w)]

\* Toplevel.start_drag
start_drag(s, w, target, clientX, clientY) ==
    IF TagName(target) = "BUTTON" THEN s
    ELSE [s EXCEPT !.is_dragging[w] = TRUE,
                   !.classList[w] = @ \cup {"dragging"},
                   !.offset_x[w] = clientX - OffsetLeft(s, w),
                   !.offset_y[w] = clientY - OffsetTop(s, w),
                   !.body_listeners = bind(bind(@, "mousemove", "do_drag", w),
                                           "mouseup", "stop_drag", w)]

\* do_drag that puts the window's corner at the pointer, without the offset
do_drag_no_offset(s, w, clientX, clientY) ==
    IF s.is_dragging[w]
    THEN [s EXCEPT !.style_left[w] = Px(clientX),
                   !.style_top[w] = Px(clientY)]
    ELSE s

\* Toplevel.do_drag
do_drag(s, w, clientX, clientY) ==
    IF s.is_dragging[w]
    THEN [s EXCEPT !.style_left[w] = Px(clientX - s.offset_x[w]),
                   !.style_top[w] = Px(clientY - s.offset_y[w])]
    ELSE s

\* stop_drag that leaves the mousemove listener bound
stop_drag_leak(s, w) ==
    [s EXCEPT !.is_dragging[w] = FALSE,
              !.classList[w] = @ \ {"dragging"},
              !.body_listeners = unbind(@, "mouseup", "stop_drag", w)]

\* stop_drag that ends neither the dragging state nor the mousemove listener
stop_drag_still_moving(s, w) ==
    [s EXCEPT !.classList[w] = @ \ {"dragging"},
              !.body_listeners = unbind(@, "mouseup", "stop_drag", w)]

\* stop_drag that also resets the offset
stop_drag_clear_offset(s, w) ==
    [s EXCEPT !.is_dragging[w] = FALSE,
              !.offset_x[w] = 0,
              !.offset_y[w] = 0,
              !.classList[w] = @ \ {"dragging"},
              !.body_listeners = unbind(unbind(@, "mousemove", "do_drag", w),
                                        "mouseup", "stop_drag", w)]

\* Toplevel.stop_drag
stop_drag(s, w) ==
    [s EXCEPT !.is_dragging[w] = FALSE,
              !.classList[w] = @ \ {"dragging"},
              !.body_listeners = unbind(unbind(@, "mousemove", "do_drag", w),
                                        "mouseup", "stop_drag", w)]

\* Toplevel.destroy
destroy(s, w) == [s EXCEPT !.in_document[w] = FALSE]

\* the call of one listener with the event
Call(s, l, ev) ==
    IF l.func = "do_drag" THEN do_drag(s, l.self, ev.clientX, ev.clientY)
    ELSE stop_drag(s, l.self)

\* The delivery of an event to document body: the listeners registered for
\* it when the delivery starts are called in the order they were bound; one
\* that an earlier listener has removed meanwhile is not called.  Listeners
\* carry their position n in that list while the delivery runs.
RECURSIVE Deliver(_, _, _, _)
Deliver(s, i, n, ev) ==
    IF i > n THEN s
    ELSE LET live == {j \in 1..Len(s.body_listeners) :
                         /\ "n" \in DOMAIN s.body_listeners[j]
                         /\ s.body_listeners[j].n = i}
         IN IF live = {} \/ s.body_listeners[CHOOSE j \in live : TRUE].event # ev.type
            THEN Deliver(s, i + 1, n, ev)
            ELSE Deliver(Call(s, s.body_listeners[CHOOSE j \in live : TRUE], ev),
                         i + 1, n, ev)

Numbered(listeners) ==
    [j \in 1..Len(listeners) |->
        [event |-> listeners[j].event, func |-> listeners[j].func,
         self |-> listeners[j].self, n |-> j]]

Unnumbered(listeners) ==
    [j \in 1..Len(listeners) |->
        Listener(listeners[j].event, listeners[j].func, listeners[j].self)]

DispatchBody(s, ev) ==
    LET t == Deliver([s EXCEPT !.body_listeners = Numbered(@)], 1,
                     Len(s.body_listeners), ev)
    IN [t EXCEPT !.body_listeners = Unnumbered(@)]

\* the pointer is over the title bar of window w
OverTitleBar(w, p) ==
    /\ p[1] - style_left[w][1] \in 0..(MinWidth - 1)
    /\ p[2] - style_top[w][1] \in 0..(TitleBarHeight - 1)

\* Toplevel(parent, title)
NewToplevel ==
    /\ Len(is_dragging) < MaxWindows
    /\ SetTL(NewToplevelState(TL))
    /\ raised' = NoError
    /\ UNCHANGED notToplevel

\* a mousedown at point p on element target of the title bar of window w,
\* which is in the document
Press(w, target, p) ==
    /\ in_document[w]
    /\ OverTitleBar(w, p)
    /\ TagName(target) = "BUTTON" \/ Len(body_listeners) < 2 * MaxPending
    /\ SetTL(start_drag(TL, w, target, p[1], p[2]))
    /\ raised' = NoError
    /\ UNCHANGED notToplevel

MouseDown == \E w \in Windows, target \in TitleBarTargets, p \in Points : Press(w, target, p)

\* a mousemove at point p that reaches document body
Move(p) ==
    /\ SetTL(DispatchBody(TL, [type |-> "mousemove", clientX |-> p[1], clientY |-> p[2]]))
    /\ raised' = NoError
    /\ UNCHANGED notToplevel

MouseMove == \E p \in Points : Move(p)

\* a mouseup that reaches document body
MouseUp ==
    /\ SetTL(DispatchBody(TL, [type |-> "mouseup"]))
    /\ raised' = NoError
    /\ UNCHANGED notToplevel

\* a click on the close button of a window in the document
CloseClick == \E w \in Windows :
    /\ in_document[w]
    /\ SetTL(destroy(TL, w))
    /\ raised' = NoError
    /\ UNCHANGED notToplevel

ToplevelInit ==
    /\ in_document = <<>>
    /\ is_dragging = <<>>
    /\ offset_x = <<>>
    /\ offset_y = <<>>
    /\ style_left = <<>>
    /\ style_top = <<>>
    /\ classList = <<>>
    /\ body_listeners = <<>>

----------------------------------------------------------------------------
(* Reactive variables: Python values and their coercions *)

\* A Python value: its type, with the number of an int, bool (0, 1) or float
\* (in tenths) in i and the characters of a str in s
IntV(n) == [t |-> "int", i |-> n, s |-> <<>>]
BoolV(b) == [t |-> "bool", i |-> IF b THEN 1 ELSE 0, s |-> <<>>]
FloatV(tenths) == [t |-> "float", i |-> tenths, s |-> <<>>]
StrV(cs) == [t |-> "str", i |-> 0, s |-> cs]

DigitChars == <<"0", "1", "2", "3", "4", "5", "6", "7", "8", "9">>

IsDigit(c) == \E d \in 1..10 : DigitChars[d] = c

DigitValue(c) == (CHOOSE d \in 1..10 : DigitChars[d] = c) - 1

\* str.strip() of the blanks at both ends
RECURSIVE LStrip(_)
LStrip(cs) == IF cs # <<>> /\ Head(cs) = " " THEN LStrip(Tail(cs)) ELSE cs

RECURSIVE RStrip(_)
RStrip(cs) ==
    IF cs # <<>> /\ cs[Len(cs)] = " " THEN RStrip(SubSeq(cs, 1, Len(cs) - 1)) ELSE cs

\* the number a non-empty run of digits denotes
RECURSIVE DigitsValue(_)
DigitsValue(cs) ==
    IF cs = <<>> THEN 0
    ELSE 10 * DigitsValue(SubSeq(cs, 1, Len(cs) - 1)) + DigitValue(cs[Len(cs)])

\* int(str): blanks stripped, an optional sign, then digits only
ParseInt(cs) ==
    LET body == RStrip(LStrip(cs))
        signed == body # <<>> /\ Head(body) \in {"+", "-"}
        digits == IF signed THEN Tail(body) ELSE body
    IN IF digits # <<>> /\ \A k \in 1..Len(digits) : IsDigit(digits[k])
       THEN [ok |-> TRUE,
             n |-> IF signed /\ Head(body) = "-" THEN 0 - DigitsValue(digits)
                   ELSE DigitsValue(digits)]
       ELSE [ok |-> FALSE, n |-> 0]

\* int(float): truncation towards zero
Truncate(tenths) == IF tenths >= 0 THEN tenths \div 10 ELSE 0 - ((0 - tenths) \div 10)

\* int(value); ok is FALSE where int raises ValueError
PyInt(v) ==
    CASE v.t = "int" -> [ok |-> TRUE, value |-> v]
      [] v.t = "bool" -> [ok |-> TRUE, value |-> IntV(v.i)]
      [] v.t = "float" -> [ok |-> TRUE, value |-> IntV(Truncate(v.i))]
      [] v.t = "str" -> [ok |-> ParseInt(v.s).ok, value |-> IntV(ParseInt(v.s).n)]

\* bool(value): truthiness
PyBool(v) == IF v.t = "str" THEN v.s # <<>> ELSE v.i # 0

\* a == b on Python values: numbers compare by value, a str only equals a str
PyEq(a, b) ==
    IF a.t = "str" \/ b.t = "str" THEN a = b
    ELSE (IF a.t = "float" THEN a.i ELSE 10 * a.i) = (IF b.t = "float" THEN b.i ELSE 10 * b.i)

\* the decimal digits of a natural number
RECURSIVE NatToStr(_)
NatToStr(n) ==
    IF n < 10 THEN <<DigitChars[n + 1]>>
    ELSE Append(NatToStr(n \div 10), DigitChars[(n % 10) + 1])

\* the values the application constructs the variable with and passes to set
Values == {StrV(<<"a">>), StrV(<<"7", "5">>), IntV(50), BoolV(FALSE)}

VarKinds == {"StringVar", "IntVar", "BooleanVar"}

\* no input event
NoEvent == [widget |-> 0, native |-> StrV(<<>>), set_ok |-> FALSE, called |-> FALSE,
            observed |-> StrV(<<>>)]

\* the variable and adapter part of the state as one value, for the methods
\* and handlers to transform; last_event is about the handlers of this step
VS == [kind |-> var_kind, value |-> var_value, adapters |-> adapters,
       last_event |-> NoEvent, raised |-> raised]

SetVS(s) ==
    /\ var_kind' = s.kind
    /\ var_value' = s.value
    /\ adapters' = s.adapters
    /\ last_event' = s.last_event
    /\ raised' = s.raised

\* StringVar.get, IntVar.get, BooleanVar.get
variable_get(s) == s.value

\* set that swallows the error of int() and keeps the old value
variable_set_swallow(s, value) ==
    CASE s.kind = "StringVar" -> [s EXCEPT !.value = value, !.raised = NoError]
      [] s.kind = "IntVar" ->
            IF PyInt(value).ok
            THEN [s EXCEPT !.value = PyInt(value).value, !.raised = NoError]
            ELSE [s EXCEPT !.raised = NoError]
      [] s.kind = "BooleanVar" -> [s EXCEPT !.value = BoolV(PyBool(value)), !.raised = NoError]

\* set that notifies the adapters, which render the new value (checkboxes
\* by its truthiness, radio buttons by equality with their value)
variable_set_push(s, value) ==
    LET s1 == CASE s.kind = "StringVar" -> [s EXCEPT !.value = value, !.raised = NoError]
                [] s.kind = "IntVar" ->
                      IF PyInt(value).ok
                      THEN [s EXCEPT !.value = PyInt(value).value, !.raised = NoError]
                      ELSE [s EXCEPT !.raised = "ValueError"]
                [] s.kind = "BooleanVar" ->
                      [s EXCEPT !.value = BoolV(PyBool(value)), !.raised = NoError]
    IN [s1 EXCEPT !.adapters =
           [k \in 1..Len(@) |->
               IF @[k].cls = "Checkbutton" THEN [@[k] EXCEPT !.checked = PyBool(s1.value)]
               ELSE IF @[k].cls = "Radiobutton"
                    THEN [@[k] EXCEPT !.checked = PyEq(s1.value, StrV(@[k].native))]
                    ELSE @[k]]]

\* StringVar.set, IntVar.set, BooleanVar.set
variable_set(s, value) ==
    CASE s.kind = "StringVar" -> [s EXCEPT !.value = value, !.raised = NoError]
      [] s.kind = "IntVar" ->
            IF PyInt(value).ok
            THEN [s EXCEPT !.value = PyInt(value).value, !.raised = NoError]
            ELSE [s EXCEPT !.raised = "ValueError"]
      [] s.kind = "BooleanVar" -> [s EXCEPT !.value = BoolV(PyBool(value)), !.raised = NoError]

\* before the application has constructed the shared variable
NoVariable == "none"

VariableInit ==
    /\ var_kind = NoVariable
    /\ var_value = StrV(<<>>)
    /\ adapters = <<>>
    /\ last_event = NoEvent

\* StringVar.__init__, IntVar.__init__, BooleanVar.__init__: the value is
\* stored as given
variable_init(s, kind, initial_value) ==
    [s EXCEPT !.kind = kind, !.value = initial_value, !.raised = NoError]

\* the application constructs the shared variable
NewVariable == \E kind \in VarKinds, initial_value \in Values :
    /\ var_kind = NoVariable
    /\ SetVS(variable_init(VS, kind, initial_value))
    /\ UNCHANGED notVariable

\* the application calls variable.set(value)
Set(value) ==
    /\ var_kind # NoVariable
    /\ SetVS(variable_set(VS, value))
    /\ UNCHANGED notVariable

VarSet == \E value \in Values : Set(value)

\* the application calls variable.set(variable.get())
VarSetGet ==
    /\ var_kind # NoVariable
    /\ SetVS(variable_set(VS, variable_get(VS)))
    /\ UNCHANGED notVariable

----------------------------------------------------------------------------
(* Binding adapters: Checkbutton, Radiobutton, Scale, Select *)

\* Scale(parent, from_=0, to=100, ...)
ScaleFrom == 0
ScaleTo == 100

\* the value= a Radiobutton is constructed with
RadioValues == {<<"a">>, <<"7", "5">>}

\* the options a Select is constructed with
OptionLists == {<< <<"7", "5">>, <<"a">> >>, << <<"a">>, <<"7", "5">> >>}

\* the values the user can move a slider to: whole numbers, and halves where
\* the Scale was given step="0.5"
ScaleInputs(fine) ==
    IF fine THEN {<<"7", ".", "5">>} ELSE {<<"7", "5">>}

\* an adapter: its class, what its native control renders (checked for a
\* checkbox or radio button, native for the value of a radio button, range
\* input or select) and what it was constructed with
Adapter(cls, checked, native, options, fine, command) ==
    [cls |-> cls, checked |-> checked, native |-> native, options |-> options,
     fine |-> fine, command |-> command]

\* a number with at most one decimal, as the range input reads it: tenths
ParseDecimal(cs) ==
    LET dot == {k \in 1..Len(cs) : cs[k] = "."}
        whole == IF dot = {} THEN cs ELSE SubSeq(cs, 1, (CHOOSE k \in dot : TRUE) - 1)
        frac == IF dot = {} THEN <<>> ELSE SubSeq(cs, (CHOOSE k \in dot : TRUE) + 1, Len(cs))
    IN IF /\ Cardinality(dot) <= 1
          /\ whole # <<>> /\ \A k \in 1..Len(whole) : IsDigit(whole[k])
          /\ (dot = {} \/ Len(frac) = 1) /\ \A k \in 1..Len(frac) : IsDigit(frac[k])
       THEN [ok |-> TRUE, tenths |-> 10 * DigitsValue(whole) + DigitsValue(frac)]
       ELSE [ok |-> FALSE, tenths |-> 0]

TenthsToStr(t) ==
    IF t % 10 = 0 THEN NatToStr(t \div 10)
    ELSE NatToStr(t \div 10) \o <<".", DigitChars[(t % 10) + 1]>>

\* what the range input makes of an assignment to its value: a number is
\* clamped to the range and rounded to the step, anything else gives the
\* middle of the range
ScaleNative(v, fine) ==
    LET given == CASE v.t = "int" -> [ok |-> v.i >= 0, tenths |-> 10 * v.i]
                   [] v.t = "float" -> [ok |-> v.i >= 0, tenths |-> v.i]
                   [] v.t = "bool" -> [ok |-> FALSE, tenths |-> 0]
                   [] v.t = "str" -> ParseDecimal(v.s)
        low == 10 * ScaleFrom
        high == 10 * ScaleTo
        clamped == IF given.tenths < low THEN low
                   ELSE IF given.tenths > high THEN high ELSE given.tenths
        stepped == IF fine THEN ((2 * clamped + 5) \div 10) * 5
                   ELSE ((clamped + 5) \div 10) * 10
    IN IF given.ok THEN TenthsToStr(stepped)
       ELSE TenthsToStr((low + high) \div 2)

\* Checkbutton.__init__: input_element.checked = self.variable.get()
Checkbutton_init(s, command) ==
    [s EXCEPT !.adapters = Append(@, Adapter("Checkbutton", PyBool(variable_get(s)),
                                             <<>>, <<>>, FALSE, command)),
              !.raised = NoError]

\* the radio buttons of one name form a group: checking one unchecks the rest
UncheckRadios(ads) ==
    [k \in 1..Len(ads) |->
        IF ads[k].cls = "Radiobutton" THEN [ads[k] EXCEPT !.checked = FALSE] ELSE ads[k]]

\* Radiobutton.__init__: checked if self.variable.get() == value
Radiobutton_init(s, value, command) ==
    LET checked == PyEq(variable_get(s), StrV(value))
    IN [s EXCEPT !.adapters = Append(IF checked THEN UncheckRadios(@) ELSE @,
                                     Adapter("Radiobutton", checked, value, <<>>,
                                             FALSE, command)),
                 !.raised = NoError]

\* Scale.__init__: self.element.value = self.variable.get()
Scale_init(s, fine, command) ==
    [s EXCEPT !.adapters = Append(@, Adapter("Scale", FALSE,
                                             ScaleNative(variable_get(s), fine),
                                             <<>>, fine, command)),
              !.raised = NoError]

\* the value of a select element that nobody has changed: its first option's
SelectDefault(options) == IF options = <<>> THEN <<>> ELSE options[1]

\* Select.__init__ that leaves the variable alone, as the other adapters do
Select_init_no_sync(s, options, command) ==
    [s EXCEPT !.adapters = Append(@, Adapter("Select", FALSE, SelectDefault(options),
                                             options, FALSE, command)),
              !.raised = NoError]

\* Select.__init__: self.variable.set(self.element.value); an error of set
\* ends the construction
Select_init(s, options, command) ==
    LET s1 == variable_set(s, StrV(SelectDefault(options)))
    IN IF s1.raised # NoError THEN s1
       ELSE [s1 EXCEPT !.adapters = Append(@, Adapter("Select", FALSE,
                                                      SelectDefault(options),
                                                      options, FALSE, command))]

\* self.variable.set(value) in the handler of adapter i, with the outcome
\* noted for the event
handler_set(s, i, value) ==
    LET s1 == variable_set(s, value)
    IN [s1 EXCEPT !.last_event = [widget |-> i, native |-> value,
                                  set_ok |-> s1.raised = NoError, called |-> FALSE,
                                  observed |-> StrV(<<>>)]]

\* self.command(event): the callback reads the variable
call_command(s) ==
    [s EXCEPT !.last_event.called = TRUE, !.last_event.observed = variable_get(s)]

\* Checkbutton.update_variable
Checkbutton_update_variable(s, i) ==
    LET s1 == handler_set(s, i, BoolV(s.adapters[i].checked))
    IN IF s1.raised = NoError /\ s.adapters[i].command THEN call_command(s1) ELSE s1

\* Radiobutton.update_variable that stores the checked flag, as the
\* Checkbutton's does, instead of the button's value
Radiobutton_update_variable_checked(s, i) ==
    LET s1 == handler_set(s, i, BoolV(s.adapters[i].checked))
    IN IF s1.raised = NoError /\ s.adapters[i].command THEN call_command(s1) ELSE s1

\* Radiobutton.update_variable
Radiobutton_update_variable(s, i) ==
    LET s1 == handler_set(s, i, StrV(s.adapters[i].native))
    IN IF s1.raised = NoError /\ s.adapters[i].command THEN call_command(s1) ELSE s1

\* Select._on_select_change
Select_on_select_change(s, i) ==
    LET s1 == handler_set(s, i, StrV(s.adapters[i].native))
    IN IF s1.raised = NoError /\ s.adapters[i].command THEN call_command(s1) ELSE s1

\* Scale._update_variable
Scale_update_variable(s, i) == handler_set(s, i, StrV(s.adapters[i].native))

\* an input event on a Scale: the listeners bound in __init__ are called in
\* the order they were bound, _update_variable and then command, each
\* whatever the other did
Scale_input_listeners(s, i) ==
    LET s1 == Scale_update_variable(s, i)
    IN IF s.adapters[i].command THEN call_command(s1) ELSE s1

\* what the browser does to the controls before it delivers the event
NativeToggle(s, i) == [s EXCEPT !.adapters[i].checked = ~@]

NativeRadioCheck(s, i) ==
    [s EXCEPT !.adapters = [UncheckRadios(@) EXCEPT ![i].checked = TRUE]]

NativeSetValue(s, i, value) == [s EXCEPT !.adapters[i].native = value]

Adapters == DOMAIN adapters

CanConstruct == var_kind # NoVariable /\ Len(adapters) < MaxWidgets

NewCheckbutton == \E command \in BOOLEAN :
    /\ CanConstruct
    /\ SetVS(Checkbutton_init(VS, command))
    /\ UNCHANGED notVariable

NewRadiobutton == \E value \in RadioValues, command \in BOOLEAN :
    /\ CanConstruct
    /\ SetVS(Radiobutton_init(VS, value, command))
    /\ UNCHANGED notVariable

NewScale == \E fine \in BOOLEAN, command \in BOOLEAN :
    /\ CanConstruct
    /\ SetVS(Scale_init(VS, fine, command))
    /\ UNCHANGED notVariable

\* Select(parent, options, variable, command)
SelectNew(options, command) ==
    /\ CanConstruct
    /\ SetVS(Select_init(VS, options, command))
    /\ UNCHANGED notVariable

NewSelect == \E options \in OptionLists, command \in BOOLEAN : SelectNew(options, command)

\* the user toggles checkbox i
CheckInput(i) ==
    /\ adapters[i].cls = "Checkbutton"
    /\ SetVS(Checkbutton_update_variable(NativeToggle(VS, i), i))
    /\ UNCHANGED notVariable

\* the user chooses radio button i, which was not chosen
RadioInput(i) ==
    /\ adapters[i].cls = "Radiobutton"
    /\ ~adapters[i].checked
    /\ SetVS(Radiobutton_update_variable(NativeRadioCheck(VS, i), i))
    /\ UNCHANGED notVariable

\* the user moves slider i to value
ScaleInput(i, value) ==
    /\ adapters[i].cls = "Scale"
    /\ value \in ScaleInputs(adapters[i].fine)
    /\ value # adapters[i].native
    /\ SetVS(Scale_input_listeners(NativeSetValue(VS, i, value), i))
    /\ UNCHANGED notVariable

\* the user chooses another option of select i
SelectInput(i, value) ==
    /\ adapters[i].cls = "Select"
    /\ \E k \in 1..Len(adapters[i].options) : adapters[i].options[k] = value
    /\ value # adapters[i].native
    /\ SetVS(Select_on_select_change(NativeSetValue(VS, i, value), i))
    /\ UNCHANGED notVariable

NativeValues == RadioValues \cup {<<"0">>, <<"7", ".", "5">>}

CheckChange == \E i \in Adapters : CheckInput(i)
RadioChange == \E i \in Adapters : RadioInput(i)
ScaleChange == \E i \in Adapters, value \in NativeValues : ScaleInput(i, value)
SelectChange == \E i \in Adapters, value \in NativeValues : SelectInput(i, value)

----------------------------------------------------------------------------
(* Menu *)

NoClick == [entry |-> 0, default_prevented |-> FALSE, command_called |-> FALSE]

MenuInit ==
    /\ menu_items = <<>>
    /\ last_click = NoClick

\* Menu.add_command: an LI with an A href="#"; the click listener is bound
\* only "if command"
Menu_add_command(items, command, accelerator) ==
    Append(items, [role |-> "menuitem", link |-> TRUE, accelerator |-> accelerator,
                   command |-> command, click_listeners |-> IF command THEN 1 ELSE 0])

\* Menu.add_separator
Menu_add_separator(items) ==
    Append(items, [role |-> "has-divider", link |-> FALSE, accelerator |-> FALSE,
                   command |-> FALSE, click_listeners |-> 0])

\* Menu.add_cascade: an LI with a SPAN and the submenu, no link
Menu_add_cascade(items) ==
    Append(items, [role |-> "menuitem", link |-> FALSE, accelerator |-> FALSE,
                   command |-> FALSE, click_listeners |-> 0])

\* a click on the link of entry i: each listener bound on it runs
\* lambda event: (event.preventDefault(), command())
link_click(items, i) ==
    [entry |-> i,
     default_prevented |-> items[i].click_listeners > 0,
     command_called |-> items[i].click_listeners > 0]

AddCommand == \E command \in BOOLEAN, accelerator \in BOOLEAN :
    /\ Len(menu_items) < MaxEntries
    /\ menu_items' = Menu_add_command(menu_items, command, accelerator)
    /\ last_click' = NoClick
    /\ raised' = NoError
    /\ UNCHANGED notMenu

AddSeparator ==
    /\ Len(menu_items) < MaxEntries
    /\ menu_items' = Menu_add_separator(menu_items)
    /\ last_click' = NoClick
    /\ raised' = NoError
    /\ UNCHANGED notMenu

AddCascade ==
    /\ Len(menu_items) < MaxEntries
    /\ menu_items' = Menu_add_cascade(menu_items)
    /\ last_click' = NoClick
    /\ raised' = NoError
    /\ UNCHANGED notMenu

\* the user activates the link of a command entry
LinkClick(i) ==
    /\ menu_items[i].link
    /\ last_click' = link_click(menu_items, i)
    /\ raised' = NoError
    /\ UNCHANGED <<menu_items, notMenu>>

MenuClick == \E i \in DOMAIN menu_items : LinkClick(i)

----------------------------------------------------------------------------
(* Widget.pack and add_widget *)

ChildNames == <<"w1", "w2", "w3", "w4">>
Children == {ChildNames[k] : k \in 1..MaxChildren}

\* the objects a child is constructed with as its parent: the Tk root, a
\* Toplevel, and a Widget of the base class (whose element is None)
Parents == {"root", "toplevel", "bare"}
Containers == {"root", "toplevel"}
NotBuilt == "unbuilt"
NoElement == "none"

\* Tk.element is its window_body; Toplevel.element is the window DIV;
\* Widget.__init__ sets element to None
Element(p) ==
    CASE p = "root" -> "window_body"
      [] p = "toplevel" -> "tl_element"
      [] p = "bare" -> NoElement

\* Tk.window_body, Toplevel.body
Body(p) ==
    CASE p = "root" -> "window_body"
      [] p = "toplevel" -> "tl_body"

MountInit ==
    /\ parent_of = [w \in Children |-> NotBuilt]
    /\ dom = [n \in {"window_body", "tl_element", "title_bar", "title_bar_controls",
                     "tl_body"} |->
                 CASE n = "tl_element" -> <<"title_bar", "tl_body">>
                   [] n = "title_bar" -> <<"title_bar_text", "title_bar_controls">>
                   [] n = "title_bar_controls" -> <<"close_button">>
                   [] OTHER -> <<>>]
    /\ registry = [c \in Containers |-> <<>>]

MS == [parent_of |-> parent_of, dom |-> dom, registry |-> registry, raised |-> raised]

SetMS(s) ==
    /\ parent_of' = s.parent_of
    /\ dom' = s.dom
    /\ registry' = s.registry
    /\ raised' = s.raised

Without(seq, x) == SelectSeq(seq, LAMBDA y : y # x)

\* node.attach(child): appendChild, which first takes the child out of the
\* place it is in
attach(d, node, child) ==
    [n \in DOMAIN d |-> IF n = node THEN Append(Without(d[n], child), child)
                        ELSE Without(d[n], child)]

\* Widget.__init__
Widget_init(s, w, parent) == [s EXCEPT !.parent_of[w] = parent, !.raised = NoError]

\* pack that attaches to parent.element whatever the parent is
pack_by_element(s, w) ==
    LET parent_element == Element(s.parent_of[w])
    IN IF parent_element = NoElement THEN [s EXCEPT !.raised = "AttributeError"]
       ELSE [s EXCEPT !.dom = attach(@, parent_element, w), !.raised = NoError]

\* Widget.pack; None.attach raises AttributeError
pack(s, w) ==
    LET parent_element == IF s.parent_of[w] = "toplevel" THEN Body(s.parent_of[w])
                          ELSE Element(s.parent_of[w])
    IN IF parent_element = NoElement THEN [s EXCEPT !.raised = "AttributeError"]
       ELSE [s EXCEPT !.dom = attach(@, parent_element, w), !.raised = NoError]

\* Tk.add_widget, Toplevel.add_widget
add_widget(s, c, w) ==
    [s EXCEPT !.dom = attach(@, Body(c), w),
              !.registry[c] = Append(@, w),
              !.raised = NoError]

\* a child widget (a Label, say) is constructed: the next one not built yet
NewChild == \E k \in 1..MaxChildren, parent \in Parents :
    /\ parent_of[ChildNames[k]] = NotBuilt
    /\ \A j \in 1..(k - 1) : parent_of[ChildNames[j]] # NotBuilt
    /\ SetMS(Widget_init(MS, ChildNames[k], parent))
    /\ UNCHANGED notMount

Pack(w) ==
    /\ parent_of[w] # NotBuilt
    /\ SetMS(pack(MS, w))
    /\ UNCHANGED notMount

PackChild == \E w \in Children : Pack(w)

AddWidget(c, w) ==
    /\ parent_of[w] # NotBuilt
    /\ Len(registry[c]) < MaxRegistered
    /\ SetMS(add_widget(MS, c, w))
    /\ UNCHANGED notMount

AddWidgetCall == \E c \in Containers, w \in Children : AddWidget(c, w)

----------------------------------------------------------------------------
(* Specifications *)

Init ==
    /\ NotebookInit /\ ToplevelInit /\ VariableInit /\ MenuInit /\ MountInit
    /\ raised = NoError

NotebookNext == AddTab \/ SelectTab \/ TabClick

NotebookSpec == Init /\ [][NotebookNext]_vars

ToplevelNext == NewToplevel \/ MouseDown \/ MouseMove \/ MouseUp \/ CloseClick

ToplevelSpec == Init /\ [][ToplevelNext]_vars

VariableNext ==
    \/ NewVariable \/ VarSet \/ VarSetGet
    \/ NewCheckbutton \/ NewRadiobutton \/ NewScale \/ NewSelect
    \/ CheckChange \/ RadioChange \/ ScaleChange \/ SelectChange

VariableSpec == Init /\ [][VariableNext]_vars

MenuNext == AddCommand \/ AddSeparator \/ AddCascade \/ MenuClick

MenuSpec == Init /\ [][MenuNext]_vars

MountNext == NewChild \/ PackChild \/ AddWidgetCall

MountSpec == Init /\ [][MountNext]_vars

Next == NotebookNext \/ ToplevelNext \/ VariableNext \/ MenuNext \/ MountNext

Spec == Init /\ [][Next]_vars

----------------------------------------------------------------------------
(* Notebook properties *)

VisiblePanels == {i \in 1..Len(panels) : ~panels[i].hidden}

\* no two tabs added so far have the same derived identifier
DistinctIds ==
    \A i, j \in 1..Len(menu) : i # j => menu[i].aria_controls # menu[j].aria_controls

\* C1: tab exclusivity.  After every add_tab and select call, no panel is
\* visible if there is no tab, and otherwise exactly one panel is visible, it
\* is the panel of selected_tab, its trigger has aria-selected "true" and
\* every other trigger has aria-selected "false".  Stated for the Notebooks
\* whose tabs derive pairwise distinct identifiers, the others being outside
\* the contract.
C1_TabExclusivity ==
    IF Len(menu) = 0 THEN VisiblePanels = {}
    ELSE DistinctIds => \E i \in 1..Len(panels) :
            /\ VisiblePanels = {i}
            /\ panels[i].id = selected_tab
            /\ menu[i].aria_controls = selected_tab
            /\ menu[i].aria_selected = "true"
            /\ \A j \in 1..Len(menu) : j # i => menu[j].aria_selected = "false"

\* C2: first-tab default.  The step that adds the first tab to an empty
\* Notebook leaves selected_tab equal to the identifier derived from its
\* title, its panel visible and its trigger with aria-selected "true".
C2_FirstTabDefault ==
    [][(Len(menu) = 0 /\ Len(menu') = 1) =>
          /\ selected_tab' = TabId(menu'[1].text)
          /\ menu'[1].aria_controls = selected_tab'
          /\ menu'[1].aria_selected = "true"
          /\ panels'[1].id = selected_tab'
          /\ ~panels'[1].hidden
          /\ raised' = NoError]_vars

C2_Witness ==
    /\ Len(menu) = 1
    /\ selected_tab = tab_greetings
    /\ menu[1].aria_selected = "true"
    /\ ~panels[1].hidden

\* what a click on target must leave behind
ClickPost(target) ==
    IF target \in 1..Len(menu)
    THEN LET tab_id == menu[target].aria_controls
         IN /\ selected_tab' = tab_id
            /\ VisiblePanels' = {tabs'[tab_id].panel}
            /\ panels'[tabs'[tab_id].panel].id = tab_id
            /\ raised' = NoError
    ELSE UNCHANGED nbvars /\ raised' = NoError

\* C3 as stated: a click on a trigger button selects the tab the button
\* names, whose panel is then the visible one; a click elsewhere on the tab
\* list changes nothing.
C3_Original ==
    [][\A target \in ClickTargets :
          (on_tab_click(target) /\ UNCHANGED tlvars) => ClickPost(target)]_vars

\* C3, amended: the same, for a Notebook in which no two tabs derive the
\* same identifier.
C3_ClickSelects ==
    [][\A target \in ClickTargets :
          (DistinctIds /\ on_tab_click(target) /\ UNCHANGED tlvars) => ClickPost(target)]_vars

C3_Witness ==
    /\ Len(menu) = 2
    /\ menu[1].text = Greetings
    /\ menu[2].text = Widgets
    /\ selected_tab = tab_widgets
    /\ ~panels[2].hidden
    /\ panels[1].hidden

\* C4: selecting the tab that is already selected raises no error and leaves
\* selected_tab, every panel's visibility and every trigger's indicator as
\* they were.  Stated for the Notebooks whose tabs derive pairwise distinct
\* identifiers, the others being outside the contract.
C4_SelectSelectedIsNoOp ==
    [][\A tab_id \in SelectIds :
          (DistinctIds /\ selected_tab = tab_id /\ select_tab(tab_id) /\ UNCHANGED tlvars)
              => (raised' = NoError /\ UNCHANGED nbvars)]_vars

----------------------------------------------------------------------------
(* Toplevel properties *)

\* the listeners of window w on document body
ListenersOf(w) == {j \in 1..Len(body_listeners) : body_listeners[j].self = w}

\* the targets of the title bar other than the close button
DragTargets == {t \in TitleBarTargets : TagName(t) # "BUTTON"}

DragListeners(w) == <<Listener("mousemove", "do_drag", w), Listener("mouseup", "stop_drag", w)>>

\* C5: drag listener hygiene.  A release leaves no listener of any window on
\* document body, however many moves came before it; and a press that starts
\* a drag when no listener is left over registers exactly the two listeners
\* of the pressed window and captures pointer - position, whatever drags
\* (of this or of another window) came before, and the moves of the drag put
\* the window at pointer - that offset and bind nothing, so that a later drag
\* sequence runs as a first one does.
C5_ListenerHygiene ==
    [][/\ MouseUp => body_listeners' = <<>>
       /\ \A w \in Windows, target \in DragTargets, p \in Points :
             (body_listeners = <<>> /\ Press(w, target, p)) =>
                 /\ body_listeners' = DragListeners(w)
                 /\ is_dragging'[w]
                 /\ offset_x'[w] = p[1] - style_left[w][1]
                 /\ offset_y'[w] = p[2] - style_top[w][1]
                 /\ style_left' = style_left
                 /\ style_top' = style_top
       /\ \A p \in Points : Move(p) =>
             /\ body_listeners' = body_listeners
             /\ \A w \in Windows : ListenersOf(w) # {} /\ is_dragging[w] =>
                   /\ style_left'[w] = Px(p[1] - offset_x[w])
                   /\ style_top'[w] = Px(p[2] - offset_y[w])]_vars

C5_Witness ==
    /\ Len(is_dragging) = 2
    /\ body_listeners = <<>>
    /\ \A w \in Windows : ~is_dragging[w] /\ in_document[w]
    /\ style_left[1] = Px(140) /\ style_top[1] = Px(150)
    /\ style_left[2] = Px(90) /\ style_top[2] = Px(85)

\* C6: while a window is dragging, a move puts its top-left at pointer -
\* offset and leaves the offset alone; the offset is the one the press that
\* started the drag captured, pointer - top-left.
C6_DragFollowsPointer ==
    [][/\ \A p \in Points : Move(p) =>
             /\ offset_x' = offset_x
             /\ offset_y' = offset_y
             /\ \A w \in Windows : is_dragging[w] =>
                   /\ style_left'[w] = Px(p[1] - offset_x[w])
                   /\ style_top'[w] = Px(p[2] - offset_y[w])
       /\ \A w \in Windows, target \in DragTargets, p \in Points : Press(w, target, p) =>
             /\ offset_x'[w] = p[1] - style_left[w][1]
             /\ offset_y'[w] = p[2] - style_top[w][1]]_vars

\* the window pressed at (110,110) while at (100,100), after a move to (150,160)
C6_Witness ==
    \E w \in Windows :
        /\ is_dragging[w]
        /\ offset_x[w] = 10 /\ offset_y[w] = 10
        /\ style_left[w] = Px(140) /\ style_top[w] = Px(150)

\* C7: a release leaves every window idle, a window becomes dragging again
\* only by a press on it, and a move leaves the position of an idle window
\* unchanged: after the release that ends a drag, moves have no effect on
\* the window until the next press.
C7_NoMoveAfterRelease ==
    [][/\ MouseUp => \A w \in Windows : ~is_dragging'[w]
       /\ \A w \in Windows : (~is_dragging[w] /\ is_dragging'[w]) =>
             \E target \in DragTargets, p \in Points : Press(w, target, p)
       /\ \A p \in Points : Move(p) =>
             \A w \in Windows : ~is_dragging[w] =>
                 style_left'[w] = style_left[w] /\ style_top'[w] = style_top[w]]_vars

\* an idle window that a drag has moved, with a pointer position other than
\* the one it follows while dragging still to come
C7_Witness ==
    \E w \in Windows :
        /\ ~is_dragging[w]
        /\ ListenersOf(w) = {}
        /\ style_left[w] = Px(140) /\ style_top[w] = Px(150)
        /\ offset_x[w] = 10

\* C8: a press on the close button changes nothing of the window (it stays
\* idle if it was, its offset and the listeners on document body are the
\* same); a press on any other part of the title bar leaves the window
\* dragging.
C8_CloseNeverDrags ==
    [][\A w \in Windows, p \in Points :
          /\ Press(w, "close_button", p) => UNCHANGED tlvars
          /\ \A target \in DragTargets : Press(w, target, p) =>
                /\ is_dragging'[w]
                /\ body_listeners' = body_listeners \o DragListeners(w)]_vars

\* a window in the document, idle and without listeners, under the pointer
\* (where a press on its close button leaves it), next to a dragging one
C8_Witness ==
    /\ \E w \in Windows :
          /\ in_document[w] /\ ~is_dragging[w] /\ ListenersOf(w) = {}
          /\ \E p \in Points : OverTitleBar(w, p)
    /\ \E w \in Windows : is_dragging[w] /\ ListenersOf(w) # {}

\* the offset holds a value (Python: the attributes are bound to integers)
OffsetDefined(w) == offset_x[w] \in Int /\ offset_y[w] \in Int

\* C9 as stated: the offset is defined if and only if is_dragging is true.
C9_Original == \A w \in Windows : OffsetDefined(w) <=> is_dragging[w]

\* C9, amended: the offset is defined in every state, dragging or idle; it is
\* (0,0) from construction, it changes only in a press that starts a drag
\* of the window, which sets it to pointer - top-left, and so a release
\* leaves it as captured.
C9_OffsetKept ==
    /\ [](\A w \in Windows : OffsetDefined(w))
    /\ [][/\ \A w \in DOMAIN offset_x' \ DOMAIN offset_x :
                offset_x'[w] = 0 /\ offset_y'[w] = 0 /\ ~is_dragging'[w]
          /\ \A w \in Windows :
                (offset_x'[w] # offset_x[w] \/ offset_y'[w] # offset_y[w]) =>
                    \E target \in DragTargets, p \in Points :
                        /\ Press(w, target, p)
                        /\ is_dragging'[w]
                        /\ offset_x'[w] = p[1] - style_left[w][1]
                        /\ offset_y'[w] = p[2] - style_top[w][1]
          /\ \A w \in Windows : (is_dragging[w] /\ ~is_dragging'[w]) =>
                offset_x'[w] = offset_x[w] /\ offset_y'[w] = offset_y[w]]_vars

\* an idle window that still holds the offset of its last drag
C9_Witness ==
    \E w \in Windows : ~is_dragging[w] /\ offset_x[w] = 10 /\ offset_y[w] = 10

\* C10: drag state is per window.  A press on one window changes neither
\* is_dragging, the offset nor the position of another; a move puts every
\* dragging window at pointer - its own offset and leaves the others where
\* they are.
C10_PerWindowState ==
    [][/\ \A a \in Windows, target \in TitleBarTargets, p \in Points : Press(a, target, p) =>
             \A b \in Windows \ {a} :
                 /\ is_dragging'[b] = is_dragging[b]
                 /\ offset_x'[b] = offset_x[b] /\ offset_y'[b] = offset_y[b]
                 /\ style_left'[b] = style_left[b] /\ style_top'[b] = style_top[b]
       /\ \A p \in Points : Move(p) =>
             \A w \in Windows :
                 IF is_dragging[w]
                 THEN /\ style_left'[w] = Px(p[1] - offset_x[w])
                      /\ style_top'[w] = Px(p[2] - offset_y[w])
                 ELSE style_left'[w] = style_left[w] /\ style_top'[w] = style_top[w]]_vars

\* two windows dragging at once, each following the pointer at (150,160) with
\* its own offset
C10_Witness ==
    /\ Len(is_dragging) = 2
    /\ is_dragging[1] /\ is_dragging[2]
    /\ offset_x[1] = 10 /\ offset_y[1] = 10
    /\ offset_x[2] = 20 /\ offset_y[2] = 25
    /\ style_left[1] = Px(140) /\ style_top[1] = Px(150)
    /\ style_left[2] = Px(130) /\ style_top[2] = Px(135)

\* C20: acquire/release discipline.  In every state reached by press, move,
\* release and destroy events in any order, a window has its mousemove and
\* mouseup listeners on document body exactly while it is dragging, and has
\* none once it is idle or destroyed.
C20_ListenerDiscipline ==
    \A w \in Windows :
        /\ (is_dragging[w] /\ in_document[w]) =>
              /\ \E j \in ListenersOf(w) : body_listeners[j].event = "mousemove"
              /\ \E j \in ListenersOf(w) : body_listeners[j].event = "mouseup"
        /\ (~is_dragging[w] \/ ~in_document[w]) => ListenersOf(w) = {}

----------------------------------------------------------------------------
(* Variable and adapter properties *)

\* the texts of the model that int() accepts
IntegerTexts == {<<"7", "5">>, <<"0">>}

\* set(value) of a variable of the kind succeeds
Accepts(kind, value) == kind = "IntVar" /\ value.t = "str" => value.s \in IntegerTexts

\* what a variable of the kind holds after a successful set(value)
Stored(kind, value) ==
    CASE kind = "StringVar" -> value
      [] kind = "IntVar" ->
            IF value.t = "str" THEN (IF value.s = <<"0">> THEN IntV(0) ELSE IntV(75))
            ELSE IF value.t = "float" THEN IntV(3) ELSE IntV(value.i)
      [] kind = "BooleanVar" -> BoolV(value \notin {StrV(<<>>), IntV(0), BoolV(FALSE)})

\* C11: get() of an IntVar returns an int and get() of a BooleanVar a bool in
\* every reachable state, directly after construction with any initial value
\* included.
C11_GetIsCoerced ==
    /\ var_kind = "IntVar" => var_value.t = "int"
    /\ var_kind = "BooleanVar" => var_value.t = "bool"

\* C12: v.set(v.get()) on an IntVar or BooleanVar raises no error and leaves
\* the stored value unchanged.
C12_SetGetIsNoOp ==
    [][(var_kind \in {"IntVar", "BooleanVar"} /\ VarSetGet) =>
          (raised' = NoError /\ PyEq(var_value', var_value))]_vars

\* C13: IntVar.set of a value that is no integer text raises ValueError to
\* its caller and leaves the stored value as it was; every other set of an
\* IntVar, and every set of a StringVar, raises nothing, and a StringVar
\* stores the value as given.  Whatever step raises ValueError leaves the
\* stored value alone.
C13_SetErrors ==
    [][/\ \A value \in Values : Set(value) =>
             /\ (var_kind = "IntVar" /\ ~Accepts("IntVar", value)) =>
                   (raised' = "ValueError" /\ var_value' = var_value)
             /\ (var_kind = "IntVar" /\ Accepts("IntVar", value)) =>
                   (raised' = NoError /\ var_value' = Stored("IntVar", value))
             /\ var_kind = "StringVar" => (raised' = NoError /\ var_value' = value)
       /\ raised' = "ValueError" => (var_kind = "IntVar" /\ var_value' = var_value)]_vars

\* an IntVar that holds 75 from a successful set, after a set that failed
C13_Witness ==
    /\ var_kind = "IntVar"
    /\ var_value = IntV(75)
    /\ raised = "ValueError"

\* what the browser may have done to adapter j when the user acted on
\* another adapter: nothing, or, to a radio button, uncheck it
NativeOnly(j) ==
    \/ adapters'[j] = adapters[j]
    \/ /\ adapters[j].cls = "Radiobutton"
       /\ adapters'[j] = [adapters[j] EXCEPT !.checked = FALSE]

\* C14: pull-based binding.  A set call changes nothing but the stored
\* value: no adapter is re-rendered and no callback runs.  An input event on
\* one adapter leaves the rendered state of every other adapter of the
\* variable as the browser left it: the handlers write none of it.
C14_PullBased ==
    [][/\ (\E value \in Values : Set(value)) \/ VarSetGet =>
             (adapters' = adapters /\ last_event' = NoEvent)
       /\ \A i \in Adapters :
             \/ CheckInput(i)
             \/ RadioInput(i)
             \/ \E value \in NativeValues : ScaleInput(i, value) \/ SelectInput(i, value)
             => /\ var_value' # var_value => last_event'.widget = i
                /\ \A j \in Adapters \ {i} :
                      IF adapters[i].cls = "Radiobutton" THEN NativeOnly(j)
                      ELSE adapters'[j] = adapters[j]]_vars

\* two checkboxes on one BooleanVar: the second was toggled and the variable
\* follows it, the first still shows the old value
C14_Witness ==
    /\ var_kind = "BooleanVar"
    /\ Len(adapters) = 2
    /\ adapters[1].cls = "Checkbutton" /\ adapters[2].cls = "Checkbutton"
    /\ last_event.widget = 2
    /\ adapters[2].checked /\ var_value = BoolV(TRUE)
    /\ ~adapters[1].checked

\* C15: the callback of an adapter runs only for an event whose set
\* committed, and it observes the value that set stored (stated for a
\* variable that holds a value of its declared type).
C15_CallbackAfterCommit ==
    (C11_GetIsCoerced /\ last_event.called) =>
        /\ last_event.set_ok
        /\ last_event.observed = Stored(var_kind, last_event.native)

\* the radio buttons rendered as selected
SelectedRadios == {i \in Adapters : adapters[i].cls = "Radiobutton" /\ adapters[i].checked}

DistinctRadioValues ==
    \A i, j \in Adapters :
        (i # j /\ adapters[i].cls = "Radiobutton" /\ adapters[j].cls = "Radiobutton")
            => adapters[i].native # adapters[j].native

\* C16 as stated: in every reachable state of a group of radio buttons with
\* pairwise distinct values on one variable, at most one is rendered
\* selected, and its value equals the variable's current value.
C16_Original ==
    DistinctRadioValues =>
        /\ Cardinality(SelectedRadios) <= 1
        /\ \A i \in SelectedRadios : PyEq(var_value, StrV(adapters[i].native))

\* C16, amended: at most one radio button of the group is rendered selected
\* in every reachable state; a radio button is rendered selected at its
\* construction exactly if the variable then equals its value; directly
\* after an input event on a radio button whose set succeeded that button is
\* the selected one and the variable holds its value as set stores it.  (A
\* set call or an event of another adapter changes the variable and not the
\* rendered selection.)
C16_ExclusiveChoice ==
    /\ [](DistinctRadioValues => Cardinality(SelectedRadios) <= 1)
    /\ [][/\ \A value \in RadioValues, command \in BOOLEAN :
                (CanConstruct /\ SetVS(Radiobutton_init(VS, value, command))
                    /\ UNCHANGED notVariable)
                => /\ adapters'[Len(adapters')].checked = (var_value = StrV(value))
                   /\ var_value' = var_value
          /\ \A i \in Adapters : (RadioInput(i) /\ raised' = NoError) =>
                /\ SelectedRadios' = {i}
                /\ var_value' = Stored(var_kind, StrV(adapters[i].native))]_vars

\* two radio buttons on a StringVar, the second chosen by the user
C16_Witness ==
    /\ var_kind = "StringVar"
    /\ Len(adapters) = 2
    /\ adapters[1].cls = "Radiobutton" /\ adapters[2].cls = "Radiobutton"
    /\ adapters[1].native # adapters[2].native
    /\ SelectedRadios = {2}
    /\ last_event.widget = 2
    /\ var_value = StrV(adapters[2].native)

\* the constructions of the adapters other than Select
OtherConstruction ==
    \/ \E command \in BOOLEAN :
          CanConstruct /\ SetVS(Checkbutton_init(VS, command)) /\ UNCHANGED notVariable
    \/ \E value \in RadioValues, command \in BOOLEAN :
          CanConstruct /\ SetVS(Radiobutton_init(VS, value, command))
              /\ UNCHANGED notVariable
    \/ \E fine \in BOOLEAN, command \in BOOLEAN :
          CanConstruct /\ SetVS(Scale_init(VS, fine, command)) /\ UNCHANGED notVariable

\* C17 as stated: the construction of a Select leaves the variable holding
\* the select's current value (as the variable's set stores it), whatever it
\* held; a change event does the same and then calls the callback, if any.
C17_Original ==
    [][/\ \A options \in OptionLists, command \in BOOLEAN : SelectNew(options, command) =>
             /\ var_value' = Stored(var_kind, StrV(SelectDefault(options)))
             /\ Len(adapters') = Len(adapters) + 1
       /\ \A i \in Adapters, value \in NativeValues : SelectInput(i, value) =>
             /\ var_value' = Stored(var_kind, StrV(value))
             /\ last_event'.called = adapters[i].command]_vars

\* C17, amended: the construction of a Select calls set with the select's
\* current value: where set accepts it the variable holds it afterwards (as
\* set stores it) whatever it held, and where set raises (an IntVar and a
\* text that is no integer) the construction fails with that ValueError, no
\* adapter is made and the variable is unchanged.  The other adapters'
\* constructions never write the variable.  A change event calls set with
\* the chosen value and then, only if set did not raise, the callback if any.
C17_SelectSync ==
    [][/\ \A options \in OptionLists, command \in BOOLEAN : SelectNew(options, command) =>
             IF Accepts(var_kind, StrV(SelectDefault(options)))
             THEN /\ var_value' = Stored(var_kind, StrV(SelectDefault(options)))
                  /\ Len(adapters') = Len(adapters) + 1
                  /\ raised' = NoError
             ELSE /\ var_value' = var_value
                  /\ adapters' = adapters
                  /\ raised' = "ValueError"
       /\ OtherConstruction => (var_value' = var_value /\ raised' = NoError)
       /\ \A i \in Adapters, value \in NativeValues : SelectInput(i, value) =>
             IF Accepts(var_kind, StrV(value))
             THEN /\ var_value' = Stored(var_kind, StrV(value))
                  /\ last_event'.called = adapters[i].command
                  /\ last_event'.called => last_event'.observed = var_value'
             ELSE /\ var_value' = var_value
                  /\ ~last_event'.called
                  /\ raised' = "ValueError"]_vars

\* a BooleanVar constructed with False that the construction of a Select has
\* set to True
C17_Witness ==
    /\ var_kind = "BooleanVar"
    /\ Len(adapters) = 1
    /\ adapters[1].cls = "Select"
    /\ last_event = NoEvent
    /\ var_value = BoolV(TRUE)

----------------------------------------------------------------------------
(* Menu properties *)

\* C18: every activation of a command entry's link suppresses the default
\* navigation, and calls the callback when one was given.
C18_CommandSuppressesDefault ==
    last_click.entry # 0 =>
        /\ last_click.default_prevented
        /\ menu_items[last_click.entry].command => last_click.command_called

----------------------------------------------------------------------------
(* Mount properties *)

\* the slot the children of a container belong in
BodySlot(c) == IF c = "root" THEN "window_body" ELSE "tl_body"

\* child w is the last child of the slot now, and apart from that every
\* node has the children it had, in the order it had them
AppendedTo(slot, w) ==
    /\ dom'[slot] = Append(SelectSeq(dom[slot], LAMBDA y : y # w), w)
    /\ \A n \in DOMAIN dom \ {slot} : dom'[n] = SelectSeq(dom[n], LAMBDA y : y # w)

\* C19: mounting is a pure append into the parent's body slot.  The title
\* bar, its controls and the Toplevel's element keep exactly their own
\* nodes, so every mounted child is a child of a body slot; each pack into
\* the Tk root or a Toplevel, and each add_widget, puts the child at the
\* end of that container's body slot and keeps the order of the others;
\* pack into a parent with no element raises AttributeError at the call and
\* attaches nothing.
C19_MountAppends ==
    /\ [](/\ dom["tl_element"] = <<"title_bar", "tl_body">>
          /\ dom["title_bar"] = <<"title_bar_text", "title_bar_controls">>
          /\ dom["title_bar_controls"] = <<"close_button">>
          /\ \A n \in {"window_body", "tl_body"} :
                \A k \in 1..Len(dom[n]) : dom[n][k] \in Children)
    /\ [][\A w \in Children :
             /\ Pack(w) =>
                   IF parent_of[w] \in Containers
                   THEN AppendedTo(BodySlot(parent_of[w]), w) /\ raised' = NoError
                   ELSE dom' = dom /\ registry' = registry /\ raised' = "AttributeError"
             /\ \A c \in Containers : AddWidget(c, w) =>
                   /\ AppendedTo(BodySlot(c), w)
                   /\ registry'[c] = Append(registry[c], w)
                   /\ raised' = NoError]_vars

\* two children packed into the Toplevel, in mount order in its body, and a
\* third whose pack into an element-less parent has just failed
C19_Witness ==
    /\ parent_of["w1"] = "toplevel" /\ parent_of["w2"] = "toplevel"
    /\ parent_of["w3"] = "bare"
    /\ dom["tl_body"] = <<"w2", "w1">>
    /\ dom["window_body"] = <<>>
    /\ raised = "AttributeError"

----------------------------------------------------------------------------
(* Notebook properties: the frame of add_tab and the failed select *)

\* C21: add_tab on a Notebook that has a tab already appends a hidden panel
\* and a trigger with aria-selected "false", and leaves selected_tab and
\* every existing trigger and panel as they were; selected_tab changes only
\* in the first add_tab and in a select (called directly or by a click).
C21_AddTabFrame ==
    [][/\ \A title \in Titles :
             (Len(menu) >= 1 /\ Len(menu) < MaxTabs /\ add_tab(title)
                  /\ UNCHANGED notNotebook)
             => /\ Len(menu') = Len(menu) + 1
                /\ Len(panels') = Len(panels) + 1
                /\ panels'[Len(panels')].hidden
                /\ menu'[Len(menu')].aria_selected = "false"
                /\ selected_tab' = selected_tab
                /\ SubSeq(menu', 1, Len(menu)) = menu
                /\ SubSeq(panels', 1, Len(panels)) = panels
       /\ selected_tab' # selected_tab =>
             \/ Len(menu) = 0 /\ AddTab
             \/ (SelectTab \/ TabClick) /\ raised' = NoError]_vars

\* three tabs: the first is selected and shown, the two added after it are
\* hidden and not marked
C21_Witness ==
    /\ Len(menu) = 3
    /\ selected_tab = menu[1].aria_controls
    /\ ~panels[1].hidden /\ menu[1].aria_selected = "true"
    /\ \A i \in 2..3 : panels[i].hidden /\ menu[i].aria_selected = "false"
    /\ DistinctIds

\* C22: _select_tab with an identifier that is not a key of the tab mapping
\* raises an error and leaves selected_tab, every panel's visibility and
\* every trigger's indicator as they were before the call.
C22_FailedSelectKeepsState ==
    [][\A tab_id \in SelectIds :
          (tab_id \notin DOMAIN tabs /\ select_tab(tab_id) /\ UNCHANGED notNotebook)
              => (raised' = "KeyError" /\ UNCHANGED nbvars)]_vars

====
